---- MODULE Spec2Model ----
(***************************************************************************)
(* NewsBoard (primary Express / Passport / Drizzle implementation).        *)
(*                                                                         *)
(* State: the two relational tables (users, articles), the session store   *)
(* (one entry per client cookie, holding passport.user = the user id),     *)
(* the position of the server process (admin bootstrap, then serving) and, *)
(* per client, the request whose handler is suspended at an await.         *)
(*                                                                         *)
(* A handler runs without interleaving between two awaits on the           *)
(* single-threaded runtime. A client has at most one request whose handler *)
(* is suspended, so a step that touches only that client's session entry   *)
(* commutes with every step of the other clients; the handlers are         *)
(* therefore cut only where two requests can race on a table: between the  *)
(* username lookup and the insert of a registration, and between the       *)
(* article lookup and the delete of a deletion.                            *)
(*                                                                         *)
(* Text is a sequence of lexemes (a run of characters, a markup tag, or a  *)
(* single special character), so that sanitizing, measuring and parsing    *)
(* are computed and not assumed.                                           *)
(*                                                                         *)
(* The specifications share the variables: Spec (every route, two         *)
(* clients), StoreSpec (rows changed in the database beside the routes and *)
(* the article insert cut at its await), TextSpec (bodies on which the     *)
(* sanitizer and the schemas disagree, and bodies that name an owner),     *)
(* LimitSpec (the two rate limiters in front of the routes, one address,   *)
(* one window), LegacySpec (the delete route beside the prototype's),      *)
(* FaultSpec (storage calls that throw), ConfigSpec (starts of the process *)
(* in every environment) and ClientSpec (the AuthProvider of one browser   *)
(* and the responses on their way to it).                                  *)
(***************************************************************************)
EXTENDS Integers, Sequences, FiniteSets, TLC

(* ------------------------------ bounds -------------------------------- *)

\* rows the users table may hold (the bootstrap admin included)
MaxUsers == 3
\* article ids the serial may hand out
MaxArticles == 2

\* login requests of one address that may be in flight at once
MaxInflight == 5
\* requests of one address followed past a ceiling
MaxOver == 2

Clients == {"c1", "c2"}

\* limiter: max requests of one address in a window, on every /api/ route
ApiMax == 100
\* authLimiter: max requests of one address in a window, on register and login
AuthMax == 5

(* ------------------------------ text ---------------------------------- *)

Tags == {"<b>", "</b>"}

\* the characters of a text, in order
RECURSIVE Text(_)
Text(s) == IF s = << >> THEN "" ELSE Head(s) \o Text(Tail(s))

\* one lexeme through the HTML parser and serializer with no tag allowed:
\* element tags vanish (their text content is kept), a bare special
\* character comes back as its entity
SanitizeLexeme(x) ==
  IF x \in Tags THEN ""
  ELSE IF x = "&" THEN "&amp;"
  ELSE IF x = "<" THEN "&lt;"
  ELSE IF x = ">" THEN "&gt;"
  ELSE x

\* sanitizeInput: purify.sanitize(input, { ALLOWED_TAGS: [] })
RECURSIVE sanitizeInput(_)
sanitizeInput(s) ==
  IF s = << >> THEN "" ELSE SanitizeLexeme(Head(s)) \o sanitizeInput(Tail(s))

DigitValue ==
  [d \in {"0", "1", "2", "3", "4", "5", "6", "7", "8", "9"} |->
     CASE d = "0" -> 0 [] d = "1" -> 1 [] d = "2" -> 2 [] d = "3" -> 3
       [] d = "4" -> 4 [] d = "5" -> 5 [] d = "6" -> 6 [] d = "7" -> 7
       [] d = "8" -> 8 [] d = "9" -> 9]

NaN == -1

RECURSIVE LeadingDigits(_, _)
LeadingDigits(s, acc) ==
  IF s = << >> \/ Head(s) \notin DOMAIN DigitValue THEN acc
  ELSE LeadingDigits(Tail(s), 10 * acc + DigitValue[Head(s)])

\* parseInt(req.params.id): the leading run of digits, NaN when there is none
parseInt(s) ==
  IF s = << >> \/ Head(s) \notin DOMAIN DigitValue THEN NaN
  ELSE LeadingDigits(s, 0)

\* z.string().url(): the text must parse as an absolute URL, scheme first
Schemes == {"http", "https"}
IsUrl(u) == Len(u) >= 3 /\ u[1] \in Schemes /\ u[2] = ":"

(* ------------------------------ inputs -------------------------------- *)

DigitOf == [i \in 0..9 |-> CHOOSE d \in DOMAIN DigitValue : DigitValue[d] = i]

\* request bodies of POST /api/auth/register: plain and marked-up usernames,
\* a taken one, one too short, a password too short, a role asked for
RegisterBodies ==
  { [username |-> <<"ali">>, password |-> "password1", role |-> ""],
    [username |-> <<"<b>", "ali", "</b>">>, password |-> "password1",
     role |-> ""],
    [username |-> <<"bob">>, password |-> "password1", role |-> "admin"],
    [username |-> <<"admin">>, password |-> "password1", role |-> ""],
    [username |-> <<"ab">>, password |-> "password1", role |-> ""],
    [username |-> <<"ali">>, password |-> "short", role |-> ""] }

\* request bodies of POST /api/auth/login
LoginBodies ==
  { [username |-> <<"ali">>, password |-> "password1"],
    [username |-> <<"ali">>, password |-> "wrongpass"],
    [username |-> <<"bob">>, password |-> "password1"],
    [username |-> <<"admin">>, password |-> "adminpass"] }

\* request bodies of POST /api/articles
ArticleBodies ==
  { [title |-> <<"Hello World News">>,
     url |-> <<"https", ":", "//example.com">>],
    [title |-> <<"Hi">>, url |-> <<"https", ":", "//example.com">>],
    [title |-> <<"Hello World News">>, url |-> <<"example.com">>] }

\* a text written n times over
RECURSIVE Repeat(_, _)
Repeat(s, n) == IF n = 0 THEN "" ELSE s \o Repeat(s, n - 1)

\* request bodies of POST /api/auth/register whose username the sanitizer
\* changes or the schema turns down: marked up around a good name and around
\* one too short, 256 characters long, and a password too short
TextRegisterBodies ==
  { [username |-> <<"ali">>, password |-> "password1", role |-> ""],
    [username |-> <<"<b>", "ali", "</b>">>, password |-> "password1",
     role |-> ""],
    [username |-> <<"<b>", "ab", "</b>">>, password |-> "password1",
     role |-> ""],
    [username |-> <<Repeat("abcdefgh", 32)>>, password |-> "password1",
     role |-> ""],
    [username |-> <<"ali">>, password |-> "short", role |-> ""] }

\* request bodies of POST /api/articles whose title the sanitizer changes or
\* the schema turns down: too short, a short one with an ampersand, markup
\* around one too short, and a url with no scheme
TextArticleBodies ==
  { [title |-> <<"Hello World News">>,
     url |-> <<"https", ":", "//example.com">>],
    [title |-> <<"Hi">>, url |-> <<"https", ":", "//example.com">>],
    [title |-> <<"a", "&", "b">>, url |-> <<"https", ":", "//example.com">>],
    [title |-> <<"<b>", "Hi", "</b>">>,
     url |-> <<"https", ":", "//example.com">>],
    [title |-> <<"Hello World News">>, url |-> <<"example.com">>] }

\* request bodies of POST /api/articles that name an owner, an id and a
\* creation time themselves (0: the field is not in the body)
ForgedArticleBodies ==
  { [title |-> <<"Hello World News">>,
     url |-> <<"https", ":", "//example.com">>,
     userId |-> 1, id |-> 9, createdAt |-> 9] }

\* request bodies of POST /api/auth/login sent while the limiters are
\* followed: the bootstrap account with its password and with a wrong one
LimitBodies ==
  { [username |-> <<"admin">>, password |-> "adminpass"],
    [username |-> <<"admin">>, password |-> "wrongpass"] }

\* the :id of DELETE /api/articles/:id
IdInputs ==
  { <<DigitOf[i]>> : i \in 1..MaxArticles } \cup { <<"1", "x">>, <<"x">> }

(* ------------------------------ records ------------------------------- *)

NoUser == [id |-> 0, username |-> "", role |-> ""]
NoRow == [id |-> 0, username |-> "", password |-> "", role |-> ""]
NoArticle ==
  [id |-> 0, title |-> "", url |-> "", userId |-> 0, createdAt |-> 0]

\* process.env as the server reads it; "" is a variable that is not set
DevEnv ==
  [NODE_ENV |-> "development", DATABASE_URL |-> "postgres://db/newsboard",
   SESSION_SECRET |-> "", ADMIN_PASSWORD |-> ""]

\* the environments a process may be started in: production or not, each of
\* the three values set or not
Envs ==
  [NODE_ENV : {"production", "development"},
   DATABASE_URL : {"", "postgres://db/newsboard"},
   SESSION_SECRET : {"", "s3ss10n-s3cr3t"},
   ADMIN_PASSWORD : {"", "Adm1n-passw0rd"}]

\* the calls of the AuthProvider that send a request
AuthCalls == {"checkAuth", "login", "register", "logout"}

\* a call of the AuthProvider: idle (not made), sent (the request is on its
\* way or with the server), answered (the response is on its way back) or
\* done (the call's continuation has run); body is what login and register
\* were called with, status and user are the response
NoCall ==
  [state |-> "idle", body |-> << >>, status |-> 0, user |-> NoUser]

\* a request suspended at an await: its route, where it resumes, req.user,
\* and the handler's locals: validatedData (username, password, role),
\* articleId, the article read; known is what the lookup saw of the username
\* as submitted
Idle ==
  [kind |-> "none", pc |-> "idle", user |-> NoUser, username |-> "",
   password |-> "", role |-> "", articleId |-> 0, article |-> NoArticle,
   known |-> FALSE]

\* what a step writes to its client: the status, the body's message, user,
\* list or article, and with them what the request saw. On the routes that
\* read req.user: req.user and the session's passport.user when the request
\* came in (sessAt). On all: passport.user when it was answered (sessAfter).
\* Register and login: the password and role of the body, whether the
\* username as submitted was in the table (known), whether the store rejected
\* the insert (constraint) and whether a user row was added (created).
\* Delete: parseInt of the :id (articleId), the article the handler read,
\* whether a row went away (removed) and whether the article is in the table
\* after the step (present).
\* Register and create, where the handler read the body: the username or
\* title as submitted (raw), the text the schema was given (clean) and the
\* url of the body, and on create the userId the body named (bodyUserId).
\* A request that ended in an exception: its message (thrown) and whether it
\* went past the route to the top-level error handler (uncaught)
NoResponse ==
  [kind |-> "none", user |-> NoUser, status |-> 0, message |-> "",
   respUser |-> NoUser, respList |-> << >>, respArticle |-> NoArticle,
   sessAt |-> 0, sessAfter |-> 0, password |-> "", role |-> "",
   known |-> FALSE, constraint |-> FALSE, created |-> FALSE,
   article |-> NoArticle, removed |-> FALSE, present |-> FALSE,
   raw |-> "", clean |-> "", url |-> << >>, articleId |-> 0,
   bodyUserId |-> 0, uncaught |-> FALSE, thrown |-> ""]

VARIABLES
  users,          \* table users: rows [id, username, password, role]
  articles,       \* table articles: rows [id, title, url, userId]
  nextUserId,     \* serial of users.id
  nextArticleId,  \* serial of articles.id
  session,        \* session store: client cookie -> passport.user (0: none)
  serverPc,       \* the server process: admin bootstrap, then serving
  reqs,           \* per client, the request suspended at an await
  response,       \* what the step just taken answered (NoResponse: nothing)
  gone,           \* ids of the articles a delete request answered 200 for
  clock,          \* the store's now(): the last timestamp it handed out
  loginRole,      \* per client, the role its user row had when it logged in
  apiHits,        \* limiter's store: requests counted in the window
  authHits,       \* authLimiter's store: requests counted in the window
  inflight,       \* login requests both limiters let through, not yet answered
  env,            \* process.env of the server process
  authUser,       \* the AuthProvider's user state in the browser (NoUser: null)
  wire            \* per call of the AuthProvider, the request it has in flight

\* the rate limiters' part of the state
limiterVars == <<apiHits, authHits, inflight>>

\* the browser's part of the state
clientVars == <<authUser, wire>>

vars ==
  <<users, articles, nextUserId, nextArticleId, session, serverPc, reqs,
    response, gone, clock, loginRole, apiHits, authHits, inflight, env,
    authUser, wire>>

(* ------------------------- persistence adapter ------------------------ *)

\* PostgresStorage.getUser
getUser(id) ==
  IF \E u \in users : u.id = id THEN CHOOSE u \in users : u.id = id ELSE NoRow

\* faulty variant: a lookup whose condition matches no row
LookupFindsNobody(username) == NoRow

\* PostgresStorage.getUserByUsername
getUserByUsername(username) ==
  IF \E u \in users : u.username = username
  THEN CHOOSE u \in users : u.username = username
  ELSE NoRow

\* faulty variant: a users table without the unique index on username
NoUniqueIndex(username) == FALSE

\* users.username is .unique(): an insert of a username already in the table
\* is rejected by the store and createUser throws
UniqueViolation(username) == \E u \in users : u.username = username

\* PostgresStorage.createUser: the row the insert returns
createUser(insertUser) ==
  [id |-> nextUserId, username |-> insertUser.username,
   password |-> insertUser.password, role |-> insertUser.role]

\* PostgresStorage.getArticleById
getArticleById(id) ==
  IF \E a \in articles : a.id = id
  THEN CHOOSE a \in articles : a.id = id
  ELSE NoArticle

\* PostgresStorage.createArticle: the row the insert returns; id is the
\* serial's next value and createdAt is defaultNow()
createArticle(insertArticle, now) ==
  [id |-> nextArticleId, title |-> insertArticle.title,
   url |-> insertArticle.url, userId |-> insertArticle.userId,
   createdAt |-> now]

\* faulty variant: a delete that matches no row
DeleteMatchesNothing(id) == articles

\* faulty variant: a delete that keeps the row and blanks its title
DeleteBlanksRow(id) ==
  {IF a.id = id THEN [a EXCEPT !.title = "[deleted]"] ELSE a : a \in articles}

\* PostgresStorage.deleteArticle: the table after the delete
deleteArticle(id) == {a \in articles : a.id # id}

\* a row of the listing: the article left-joined with its owner's username
ArticleWithUsername(a) ==
  [id |-> a.id, title |-> a.title, url |-> a.url, userId |-> a.userId,
   createdAt |-> a.createdAt,
   username |-> IF getUser(a.userId) = NoRow THEN "Unknown"
                ELSE getUser(a.userId).username]

\* the rows of a table in every order a query may return them
RECURSIVE Orderings(_)
Orderings(rows) ==
  IF rows = {} THEN {<< >>}
  ELSE UNION {{<<r>> \o l : l \in Orderings(rows \ {r})} : r \in rows}

\* faulty variant: a query that has lost its orderBy
AnyOrder(l) == TRUE

\* .orderBy(desc(articles.createdAt)): rows of one timestamp come in any order
NewestFirst(l) ==
  \A i, j \in DOMAIN l : i < j => l[i].createdAt >= l[j].createdAt

RECURSIVE Joined(_)
Joined(l) ==
  IF l = << >> THEN << >>
  ELSE <<ArticleWithUsername(Head(l))>> \o Joined(Tail(l))

\* PostgresStorage.getArticles: the listings the query may return
getArticles == {Joined(l) : l \in {o \in Orderings(articles) : NewestFirst(o)}}

(* --------------------------- authentication --------------------------- *)

\* bcrypt.hash(password, 10) and bcrypt.compare
Hash(password) == "$2b$10$" \o password
Compare(password, hash) == hash = Hash(password)

\* faulty variant: the users row handed on as it was read
WholeRow(row) == row

\* the three fields that travel: { id, username, role }
Public(row) == [id |-> row.id, username |-> row.username, role |-> row.role]

\* faulty variant: a serializer that stores nothing usable
SerializeNothing(user) == 0

\* passport.serializeUser: only the id goes into the session
serializeUser(user) == user.id

\* faulty variant: a deserializer that reports every user as gone
DeserializeFindsNobody(id) == NoUser

\* faulty variant: a deserializer that keeps the role the session was opened
\* with
DeserializeLoginRole(id) ==
  IF id = 0 \/ getUser(id) = NoRow THEN NoUser
  ELSE IF \E c \in Clients : session[c] = id /\ loginRole[c] # ""
  THEN [Public(getUser(id)) EXCEPT
          !.role = loginRole[CHOOSE c \in Clients :
                               session[c] = id /\ loginRole[c] # ""]]
  ELSE Public(getUser(id))

\* passport.deserializeUser: the row is fetched again on every request
deserializeUser(id) ==
  IF id = 0 \/ getUser(id) = NoRow THEN NoUser ELSE Public(getUser(id))

\* faulty variant: a verify callback that tells a wrong password apart
VerifyTellsApart(username, password) ==
  LET user == getUserByUsername(username) IN
    IF user = NoRow
    THEN [user |-> NoUser, message |-> "Invalid credentials"]
    ELSE IF ~Compare(password, user.password)
    THEN [user |-> NoUser, message |-> "Invalid password"]
    ELSE [user |-> Public(user), message |-> ""]

\* the LocalStrategy verify callback: done(null, false, info) or done(null, user)
LocalVerify(username, password) ==
  LET user == getUserByUsername(username) IN
    IF user = NoRow
    THEN [user |-> NoUser, message |-> "Invalid credentials"]
    ELSE IF ~Compare(password, user.password)
    THEN [user |-> NoUser, message |-> "Invalid credentials"]
    ELSE [user |-> Public(user), message |-> ""]

(* ----------------------------- validation ----------------------------- *)

Roles == {"admin", "user"}

\* insertUserSchema.parse: the issues, in schema order
InsertUserIssues(username, password, role) ==
  (IF Len(username) < 3
   THEN <<"Username must be at least 3 characters at \"username\"">>
   ELSE IF Len(username) > 255
   THEN <<"String must contain at most 255 character(s) at \"username\"">>
   ELSE << >>)
  \o (IF Len(password) < 8
      THEN <<"Password must be at least 8 characters at \"password\"">>
      ELSE << >>)
  \o (IF role # "" /\ role \notin Roles
      THEN <<"Invalid enum value at \"role\"">>
      ELSE << >>)

\* insertArticleSchema.parse: the issues, in schema order
InsertArticleIssues(title, url) ==
  (IF Len(title) < 5
   THEN <<"Title must be at least 5 characters at \"title\"">>
   ELSE << >>)
  \o (IF ~IsUrl(url) THEN <<"Must be a valid URL at \"url\"">> ELSE << >>)

\* faulty variant: a parse that lets every body through
ParseNeverThrows(issues) == FALSE

\* schema.parse(body) throws a ZodError when the body has issues
ParseThrows(issues) == issues # << >>

RECURSIVE JoinIssues(_)
JoinIssues(issues) ==
  IF Len(issues) = 1 THEN Head(issues)
  ELSE Head(issues) \o "; " \o JoinIssues(Tail(issues))

\* fromZodError(error).message
fromZodError(issues) == "Validation error: " \o JoinIssues(issues)

(* ------------------------------ responses ----------------------------- *)

\* res.status(status).json({ message }) to client c, whose request came in
\* with passport.user = sessAt and was given req.user = user
Respond(kind, c, user, sessAt, status, message) ==
  [NoResponse EXCEPT !.kind = kind, !.user = user, !.sessAt = sessAt,
                     !.sessAfter = session[c], !.status = status,
                     !.message = message]

Answer(r) == response' = r
Silent == response' = NoResponse
Suspend(c, req) == reqs' = [reqs EXCEPT ![c] = req] /\ Silent
Finish(c) == reqs' = [reqs EXCEPT ![c] = Idle]

Serving(c) == serverPc = "serving" /\ reqs[c].pc = "idle"

(* ------------------------------ bootstrap ----------------------------- *)

Init ==
  /\ users = {}
  /\ articles = {}
  /\ nextUserId = 1
  /\ nextArticleId = 1
  /\ session = [c \in Clients |-> 0]
  /\ serverPc = "boot_lookup"
  /\ reqs = [c \in Clients |-> Idle]
  /\ response = NoResponse
  /\ gone = {}
  /\ clock = 0
  /\ loginRole = [c \in Clients |-> ""]
  /\ apiHits = 0
  /\ authHits = 0
  /\ inflight = [b \in LimitBodies |-> 0]
  /\ env = DevEnv
  /\ authUser = NoUser
  /\ wire = [k \in AuthCalls |-> NoCall]

\* faulty variant: a bootstrap that does not look before it inserts
AdminAlwaysAbsent == TRUE

\* if (!adminUser), after storage.getUserByUsername("admin")
AdminAbsent == getUserByUsername("admin") = NoRow

\* process.env.NODE_ENV === "production"
IsProduction(e) == e.NODE_ENV = "production"

\* process.env.ADMIN_PASSWORD || "adminpass"
AdminPassword(e) ==
  IF e.ADMIN_PASSWORD # "" THEN e.ADMIN_PASSWORD ELSE "adminpass"

\* const adminUser = await storage.getUserByUsername("admin"); with the
\* account there, the routes are registered at once
BootLookup ==
  /\ serverPc = "boot_lookup"
  /\ serverPc' = IF AdminAbsent THEN "boot_insert" ELSE "serving"
  /\ Silent
  /\ UNCHANGED <<users, articles, nextUserId, nextArticleId, session, reqs,
                 gone, clock, loginRole, limiterVars, env, clientVars>>

\* with no admin account: the ADMIN_PASSWORD check, which ends a production
\* process that has none, then await storage.createUser({ username: "admin",
\* ..., role: "admin" }) and registerRoutes; a rejected insert ends the
\* process as well
BootInsert ==
  /\ serverPc = "boot_insert"
  /\ IF IsProduction(env) /\ env.ADMIN_PASSWORD = ""
     THEN /\ serverPc' = "crashed"
          /\ UNCHANGED <<users, nextUserId>>
     ELSE IF UniqueViolation("admin")
     THEN /\ serverPc' = "crashed"
          /\ UNCHANGED <<users, nextUserId>>
     ELSE /\ users' = users \cup
               {createUser([username |-> "admin",
                            password |-> Hash(AdminPassword(env)),
                            role |-> "admin"])}
          /\ nextUserId' = nextUserId + 1
          /\ serverPc' = "serving"
  /\ Silent
  /\ UNCHANGED <<articles, nextArticleId, session, reqs, gone, clock,
                 loginRole, limiterVars, env, clientVars>>

\* the process is stopped and started again: the tables stay, the in-memory
\* session store, the limiters' in-memory stores and the requests in flight
\* are lost
Restart ==
  /\ serverPc = "serving"
  /\ serverPc' = "boot_lookup"
  /\ session' = [c \in Clients |-> 0]
  /\ loginRole' = [c \in Clients |-> ""]
  /\ reqs' = [c \in Clients |-> Idle]
  /\ apiHits' = 0
  /\ authHits' = 0
  /\ inflight' = [b \in LimitBodies |-> 0]
  /\ Silent
  /\ UNCHANGED <<users, articles, nextUserId, nextArticleId, gone, clock, env,
                 clientVars>>

\* the process comes up: the storage module is loaded (its constructor
\* throws without DATABASE_URL, in every mode), then the SESSION_SECRET check
\* (production only; elsewhere the secret falls back to a fixed one), then
\* the admin bootstrap
Start ==
  /\ serverPc = "start"
  /\ serverPc' = IF env.DATABASE_URL = "" THEN "crashed"
                 ELSE IF IsProduction(env) /\ env.SESSION_SECRET = ""
                 THEN "crashed"
                 ELSE "boot_lookup"
  /\ Silent
  /\ UNCHANGED <<users, articles, nextUserId, nextArticleId, session, reqs,
                 gone, clock, loginRole, limiterVars, env, clientVars>>

\* the process, serving or ended, is started again in environment e
Redeploy(e) ==
  /\ serverPc \in {"serving", "crashed"}
  /\ serverPc' = "start"
  /\ env' = e
  /\ session' = [c \in Clients |-> 0]
  /\ loginRole' = [c \in Clients |-> ""]
  /\ reqs' = [c \in Clients |-> Idle]
  /\ apiHits' = 0
  /\ authHits' = 0
  /\ inflight' = [b \in LimitBodies |-> 0]
  /\ Silent
  /\ UNCHANGED <<users, articles, nextUserId, nextArticleId, gone, clock,
                 clientVars>>

(* --------------------- POST /api/auth/register ------------------------ *)

\* faulty variant: the role taken from the request body when it names one
RoleFromBody(role) == IF role = "" THEN "user" ELSE role

\* the role handed to createUser: the literal "user"
RegisterRole(role) == "user"

\* up to the first query: sanitize, validate, look the username up
RegisterLookupHandler(c, username, password, role) ==
  LET name == sanitizeInput(username)
      issues == InsertUserIssues(name, password, role)
      known == \E u \in users : u.username = Text(username)
      answer(status, message) ==
        [Respond("register", c, NoUser, 0, status, message)
           EXCEPT !.known = known, !.role = role, !.password = password,
                  !.created = users' # users, !.raw = Text(username),
                  !.clean = name]
  IN
  /\ Serving(c)
  /\ UNCHANGED <<users, articles, nextUserId, nextArticleId, session,
                 serverPc, gone, clock, loginRole, limiterVars, env>>
  /\ IF ParseThrows(issues)
     THEN /\ Answer(answer(400, fromZodError(issues)))
          /\ UNCHANGED reqs
     ELSE IF getUserByUsername(name) # NoRow
     THEN /\ Answer(answer(400, "Username already taken"))
          /\ UNCHANGED reqs
     ELSE Suspend(c, [Idle EXCEPT !.kind = "register", !.pc = "reg_insert",
                                  !.username = name, !.password = password,
                                  !.role = role, !.known = known])

\* POST /api/auth/register of a client that is no browser of the model
RegisterLookup(c, username, password, role) ==
  RegisterLookupHandler(c, username, password, role) /\ UNCHANGED clientVars

\* bcrypt.hash, then storage.createUser; a rejected insert lands in the
\* catch block, which knows ZodError only. With the row in, req.login({ id,
\* username, role }, cb) writes the session and res.json({ user }) answers
RegisterInsertHandler(c) ==
  LET r == reqs[c]
      user == createUser([username |-> r.username,
                          password |-> Hash(r.password),
                          role |-> RegisterRole(r.role)])
  IN
  /\ serverPc = "serving"
  /\ r.pc = "reg_insert"
  /\ IF UniqueViolation(r.username)
     THEN /\ Answer([Respond("register", c, NoUser, 0, 500,
                             "Registration failed")
                       EXCEPT !.constraint = TRUE, !.known = r.known,
                              !.role = r.role, !.password = r.password,
                              !.clean = r.username])
          /\ UNCHANGED <<users, nextUserId, session, loginRole>>
     ELSE /\ nextUserId <= MaxUsers
          /\ users' = users \cup {user}
          /\ nextUserId' = nextUserId + 1
          /\ session' = [session EXCEPT ![c] = serializeUser(Public(user))]
          /\ loginRole' = [loginRole EXCEPT ![c] = user.role]
          /\ Answer([Respond("register", c, NoUser, 0, 200, "")
                       EXCEPT !.respUser = Public(user),
                              !.sessAfter = session'[c],
                              !.known = r.known, !.role = r.role,
                              !.password = r.password,
                              !.created = users' # users,
                              !.clean = r.username])
  /\ Finish(c)
  /\ UNCHANGED <<articles, nextArticleId, serverPc, gone, clock, limiterVars,
                 env>>

RegisterInsert(c) == RegisterInsertHandler(c) /\ UNCHANGED clientVars

(* ----------------------- POST /api/auth/login ------------------------- *)

\* passport.authenticate("local"): the verify callback, then the route's
\* callback: 401 with info.message, or req.login(user, cb) and res.json({ user })
LoginHandler(c, username, password) ==
  LET verdict == LocalVerify(Text(username), password)
      known == getUserByUsername(Text(username)) # NoRow
  IN
  /\ Serving(c)
  /\ IF verdict.user = NoUser
     THEN /\ Answer([Respond("login", c, NoUser, 0, 401,
                             IF verdict.message # "" THEN verdict.message
                             ELSE "Invalid credentials")
                       EXCEPT !.known = known, !.password = password])
          /\ UNCHANGED <<session, loginRole>>
     ELSE /\ session' = [session EXCEPT ![c] = serializeUser(verdict.user)]
          /\ loginRole' = [loginRole EXCEPT ![c] = verdict.user.role]
          /\ Answer([Respond("login", c, NoUser, 0, 200, "")
                       EXCEPT !.respUser = verdict.user,
                              !.sessAfter = session'[c], !.known = known,
                              !.password = password])
  /\ UNCHANGED <<users, articles, nextUserId, nextArticleId, serverPc, reqs,
                 gone, clock, env>>

\* POST /api/auth/login of a client within both ceilings
Login(c, username, password) ==
  LoginHandler(c, username, password) /\ UNCHANGED <<limiterVars, clientVars>>

(* ------------------- the routes behind requireAuth -------------------- *)

\* faulty variant: a requireAuth that lets every request through
AlwaysAuthenticated(user) == TRUE

\* req.isAuthenticated(): passport.session() put a user on the request
isAuthenticated(user) == user # NoUser

\* faulty variant: a logout that leaves passport.user in the session
LogoutKeepsSession(c) == session

\* req.logout(cb): the session store after it
logout(c) == [session EXCEPT ![c] = 0]

\* POST /api/auth/logout
LogoutHandler(c) ==
  LET user == deserializeUser(session[c]) IN
  /\ Serving(c)
  /\ IF ~isAuthenticated(user)
     THEN /\ Answer(Respond("logout", c, user, session[c], 401,
                            "Unauthorized"))
          /\ UNCHANGED <<session, loginRole>>
     ELSE /\ session' = logout(c)
          /\ loginRole' = [loginRole EXCEPT ![c] = ""]
          /\ Answer([Respond("logout", c, user, session[c], 200,
                             "Logged out successfully")
                       EXCEPT !.sessAfter = session'[c]])
  /\ UNCHANGED <<users, articles, nextUserId, nextArticleId, serverPc, reqs,
                 gone, clock, limiterVars, env>>

Logout(c) == LogoutHandler(c) /\ UNCHANGED clientVars

\* GET /api/auth/user
GetCurrentUserHandler(c) ==
  LET user == deserializeUser(session[c]) IN
  /\ Serving(c)
  /\ Answer(IF ~isAuthenticated(user)
            THEN Respond("user", c, user, session[c], 401,
                         "Not authenticated")
            ELSE [Respond("user", c, user, session[c], 200, "")
                    EXCEPT !.respUser = user])
  /\ UNCHANGED <<users, articles, nextUserId, nextArticleId, session,
                 serverPc, reqs, gone, clock, loginRole, limiterVars, env>>

GetCurrentUser(c) == GetCurrentUserHandler(c) /\ UNCHANGED clientVars

\* GET /api/articles
ListHandler(c) ==
  LET user == deserializeUser(session[c]) IN
  /\ Serving(c)
  /\ \E l \in getArticles :
       Answer([Respond("list", c, user, session[c], 200, "")
                 EXCEPT !.respList = l])
  /\ UNCHANGED <<users, articles, nextUserId, nextArticleId, session,
                 serverPc, reqs, gone, clock, loginRole, env>>

\* GET /api/articles of a client within the ceiling
ListArticles(c) == ListHandler(c) /\ UNCHANGED <<limiterVars, clientVars>>

\* faulty variant: the owner taken from the body when it names one
OwnerFromBody(bodyUserId, user) ==
  IF bodyUserId # 0 THEN bodyUserId ELSE user.id

\* userId: req.user!.id, written over whatever the body or the parsed data
\* holds under that key
OwnerId(bodyUserId, user) == user.id

\* insertArticleSchema.parse(body) of a body without issues: title, url and
\* userId are kept, the keys the schema omits (id, createdAt) are stripped
ParsedArticle(body) ==
  [title |-> body.title, url |-> body.url, userId |-> body.userId]

\* POST /api/articles with the body as the client sent it, the insert
\* running at the store's time now
CreateArticleFrom(c, reqBody, now) ==
  LET user == deserializeUser(session[c])
      title == reqBody.title
      url == reqBody.url
      clean == sanitizeInput(title)
      body == [reqBody EXCEPT !.title = clean, !.url = Text(url),
                              !.userId = OwnerId(reqBody.userId, user)]
      issues == InsertArticleIssues(clean, url)
      validatedData == ParsedArticle(body)
      article ==
        createArticle([validatedData EXCEPT
                         !.userId = OwnerId(validatedData.userId, user)],
                      now)
      answer(status, message) ==
        [Respond("create", c, user, session[c], status, message)
           EXCEPT !.raw = Text(title), !.clean = clean, !.url = url,
                  !.bodyUserId = reqBody.userId]
  IN
  /\ Serving(c)
  /\ IF ~isAuthenticated(user)
     THEN /\ Answer(Respond("create", c, user, session[c], 401,
                            "Unauthorized"))
          /\ UNCHANGED <<articles, nextArticleId, clock>>
     ELSE IF ParseThrows(issues)
     THEN /\ Answer(answer(400, fromZodError(issues)))
          /\ UNCHANGED <<articles, nextArticleId, clock>>
     ELSE /\ nextArticleId <= MaxArticles
          /\ articles' = articles \cup {article}
          /\ nextArticleId' = nextArticleId + 1
          /\ clock' = now
          /\ Answer([answer(201, "") EXCEPT !.respArticle = article])
  /\ UNCHANGED <<users, nextUserId, session, serverPc, reqs, gone,
                 loginRole, limiterVars, env, clientVars>>

\* POST /api/articles with a body of title and url, as the client sends it
CreateArticleAt(c, title, url, now) ==
  CreateArticleFrom(c, [title |-> title, url |-> url, userId |-> 0,
                        id |-> 0, createdAt |-> 0], now)

\* POST /api/articles; the store's clock has moved on since the last insert
CreateArticle(c, title, url) == CreateArticleAt(c, title, url, clock + 1)

(* -------------------- DELETE /api/articles/:id ------------------------ *)

\* faulty variant: a handler that has lost its ownership check
NeverForbidden(article, user) == FALSE

\* article.userId !== req.user!.id && req.user!.role !== "admin"
DeleteForbidden(article, user) ==
  article.userId # user.id /\ user.role # "admin"

\* faulty variant: a handler that has lost its existence check
NeverNotFound(article) == FALSE

\* if (!article), after storage.getArticleById
NotFound(article) == article = NoArticle

\* requireAuth, parseInt(req.params.id) and the isNaN check, then
\* storage.getArticleById, the 404 and the 403
DeleteLookup(c, id) ==
  LET user == deserializeUser(session[c])
      articleId == parseInt(id)
      article == getArticleById(articleId)
      answer(status, message) ==
        [Respond("delete", c, user, session[c], status, message)
           EXCEPT !.articleId = articleId]
  IN
  /\ Serving(c)
  /\ UNCHANGED <<users, articles, nextUserId, nextArticleId, session,
                 serverPc, gone, clock, loginRole, limiterVars, env, clientVars>>
  /\ IF ~isAuthenticated(user)
     THEN Answer(answer(401, "Unauthorized")) /\ UNCHANGED reqs
     ELSE IF articleId = NaN
     THEN Answer(answer(400, "Invalid article ID")) /\ UNCHANGED reqs
     ELSE IF NotFound(article)
     THEN Answer(answer(404, "Article not found")) /\ UNCHANGED reqs
     ELSE IF DeleteForbidden(article, user)
     THEN /\ Answer([answer(403,
                       "Forbidden - You can only delete your own articles")
                       EXCEPT !.article = article,
                              !.present = article \in articles'])
          /\ UNCHANGED reqs
     ELSE Suspend(c, [Idle EXCEPT !.kind = "delete", !.pc = "del_delete",
                                  !.user = user, !.articleId = articleId,
                                  !.article = article])

\* storage.deleteArticle, then res.json({ message })
DeleteRow(c) ==
  LET r == reqs[c] IN
  /\ serverPc = "serving"
  /\ r.pc = "del_delete"
  /\ articles' = deleteArticle(r.article.id)
  /\ gone' = gone \cup {r.article.id}
  /\ Answer([Respond("delete", c, r.user, r.user.id, 200,
                     "Article deleted successfully")
               EXCEPT !.articleId = r.articleId, !.article = r.article,
                      !.removed = articles' # articles,
                      !.present = r.article \in articles'])
  /\ Finish(c)
  /\ UNCHANGED <<users, nextUserId, nextArticleId, session, serverPc, clock,
                 loginRole, limiterVars, env, clientVars>>

(* ------------------- the store, outside the API ----------------------- *)

\* the client followed while the store is changed from outside
StoreClients == {"c1"}

\* the request bodies it sends
StoreRegisterBodies ==
  { [username |-> <<"ali">>, password |-> "password1", role |-> ""] }

StoreLoginBodies ==
  { [username |-> <<"ali">>, password |-> "password1"],
    [username |-> <<"admin">>, password |-> "adminpass"] }

StoreArticleBodies ==
  { [title |-> <<"Hello World News">>,
     url |-> <<"https", ":", "//example.com">>] }

\* users.role is a plain column: an UPDATE on the table (there is no route
\* for it) gives the row another role; sessions are not touched
SetRole(id, role) ==
  /\ \E u \in users : u.id = id /\ u.role # role
  /\ users' = {IF u.id = id THEN [u EXCEPT !.role = role] ELSE u : u \in users}
  /\ Silent
  /\ UNCHANGED <<articles, nextUserId, nextArticleId, session, serverPc, reqs,
                 gone, clock, loginRole, limiterVars, env, clientVars>>

\* faulty variant: a user_id column that references users.id with no cascade
OnDeleteNoAction(id) == articles

\* user_id references users.id with onDelete: "cascade": the articles table
\* after the users row id is deleted
OnDeleteCascade(id) == {a \in articles : a.userId # id}

\* a DELETE on the users table (there is no route for it): the row goes and
\* the store deletes the articles that reference it in the same statement
RemoveUser(id) ==
  /\ \E u \in users : u.id = id
  /\ users' = {u \in users : u.id # id}
  /\ articles' = OnDeleteCascade(id)
  /\ Silent
  /\ UNCHANGED <<nextUserId, nextArticleId, session, serverPc, reqs, gone,
                 clock, loginRole, limiterVars, env, clientVars>>

\* user_id references users.id: an insert naming no row of users is rejected
ForeignKeyViolation(userId) == ~\E u \in users : u.id = userId

\* POST /api/articles up to the insert: passport.session() has read the
\* user row, requireAuth, sanitizeInput, insertArticleSchema.parse
CreateStart(c, title, url) ==
  LET user == deserializeUser(session[c])
      clean == sanitizeInput(title)
      issues == InsertArticleIssues(clean, url)
      answer(status, message) ==
        [Respond("create", c, user, session[c], status, message)
           EXCEPT !.raw = Text(title), !.clean = clean, !.url = url]
  IN
  /\ Serving(c)
  /\ UNCHANGED <<users, articles, nextUserId, nextArticleId, session,
                 serverPc, gone, clock, loginRole, limiterVars, env, clientVars>>
  /\ IF ~isAuthenticated(user)
     THEN /\ Answer(Respond("create", c, user, session[c], 401,
                            "Unauthorized"))
          /\ UNCHANGED reqs
     ELSE IF ParseThrows(issues)
     THEN Answer(answer(400, fromZodError(issues))) /\ UNCHANGED reqs
     ELSE Suspend(c, [Idle EXCEPT !.kind = "create", !.pc = "art_insert",
                                  !.user = user,
                                  !.article =
                                     [NoArticle EXCEPT !.title = clean,
                                                       !.url = Text(url),
                                                       !.userId = user.id]])

\* await storage.createArticle: the insert runs at the store's time now; a
\* rejected insert lands in the catch block
CreateInsert(c, now) ==
  LET r == reqs[c]
      article == createArticle([title |-> r.article.title,
                                url |-> r.article.url,
                                userId |-> r.article.userId], now)
  IN
  /\ serverPc = "serving"
  /\ r.pc = "art_insert"
  /\ IF ForeignKeyViolation(r.article.userId)
     THEN /\ Answer(Respond("create", c, r.user, r.user.id, 500,
                            "Failed to create article"))
          /\ UNCHANGED <<articles, nextArticleId, clock>>
     ELSE /\ nextArticleId <= MaxArticles
          /\ articles' = articles \cup {article}
          /\ nextArticleId' = nextArticleId + 1
          /\ clock' = now
          /\ Answer([Respond("create", c, r.user, r.user.id, 201, "")
                       EXCEPT !.respArticle = article])
  /\ Finish(c)
  /\ UNCHANGED <<users, nextUserId, session, serverPc, gone, loginRole,
                 limiterVars, env, clientVars>>

StoreIdInputs == { <<DigitOf[i]>> : i \in 1..MaxArticles }

(* ------------------ the AuthProvider in the browser ------------------- *)

\* the cookie of the browser the AuthProvider runs in
Browser == "c1"

\* what the login and register forms are submitted with
FormBodies ==
  { [username |-> <<"admin">>, password |-> "adminpass"],
    [username |-> <<"ali">>, password |-> "password1"] }

\* a call may be made when its last request has run its continuation
Free(k) == wire[k].state \in {"idle", "done"}

\* fetchWithAuth: response.ok, a status from 200 to 299; the call throws
\* otherwise
Ok(status) == status >= 200 /\ status <= 299

Send(k, body) ==
  /\ wire' = [wire EXCEPT ![k] = [NoCall EXCEPT !.state = "sent",
                                                !.body = body]]
  /\ Silent
  /\ UNCHANGED <<users, articles, nextUserId, nextArticleId, session,
                 serverPc, reqs, gone, clock, loginRole, limiterVars, env,
                 authUser>>

\* useEffect(() => { checkAuth(); }, []): on mount, once
Mount ==
  /\ wire["checkAuth"].state = "idle"
  /\ Send("checkAuth", << >>)

\* onLogin of the login page; the page's buttons are disabled while a login
\* or a registration of its own is under way
CallLogin(b) ==
  /\ wire["checkAuth"].state # "idle"
  /\ Free("login") /\ Free("register")
  /\ Send("login", b)

\* onRegister of the login page
CallRegister(b) ==
  /\ wire["checkAuth"].state # "idle"
  /\ Free("login") /\ Free("register")
  /\ Send("register", b)

\* the layout's logout entry, shown while user is set
CallLogout ==
  /\ authUser # NoUser
  /\ Free("logout")
  /\ Send("logout", << >>)

\* the response of the step, on its way back to the call that sent it
Received(k) ==
  wire' = [wire EXCEPT ![k] = [@ EXCEPT !.state = "answered",
                                        !.status = response'.status,
                                        !.user = response'.respUser]]

\* the server handles a request of the browser; a registration whose
\* handler is suspended at its insert is answered by ServerInserts
ServerHandles(k) ==
  /\ wire[k].state = "sent"
  /\ reqs[Browser].pc = "idle"
  /\ UNCHANGED authUser
  /\ CASE k = "checkAuth" ->
             GetCurrentUserHandler(Browser) /\ Received(k)
       [] k = "login" ->
             /\ LoginHandler(Browser, wire[k].body.username,
                             wire[k].body.password)
             /\ UNCHANGED limiterVars
             /\ Received(k)
       [] k = "logout" -> LogoutHandler(Browser) /\ Received(k)
       [] k = "register" ->
             /\ RegisterLookupHandler(Browser, wire[k].body.username,
                                      wire[k].body.password, "")
             /\ IF response'.status = 0 THEN UNCHANGED wire ELSE Received(k)

\* the insert of the browser's registration
ServerInserts ==
  /\ wire["register"].state = "sent"
  /\ RegisterInsertHandler(Browser)
  /\ Received("register")
  /\ UNCHANGED authUser

\* the continuation of a call runs with the response: checkAuth sets the
\* user of a good response and null after any other; login and register
\* set the user of a good response and throw otherwise; logout sets null
\* after a good response
Continue(k) ==
  /\ wire[k].state = "answered"
  /\ wire' = [wire EXCEPT ![k] = [@ EXCEPT !.state = "done"]]
  /\ authUser' =
       CASE k = "checkAuth" ->
              IF Ok(wire[k].status) THEN wire[k].user ELSE NoUser
         [] k \in {"login", "register"} ->
              IF Ok(wire[k].status) THEN wire[k].user ELSE authUser
         [] k = "logout" ->
              IF Ok(wire[k].status) THEN NoUser ELSE authUser
  /\ Silent
  /\ UNCHANGED <<users, articles, nextUserId, nextArticleId, session,
                 serverPc, reqs, gone, clock, loginRole, limiterVars, env>>

(* --------------------- exceptions of the storage ---------------------- *)

\* what a storage call may throw when the database cannot be reached or
\* gives up on a query: an Error with the driver's message, and one with no
\* message; neither has a status or statusCode (0: the property is not set)
StorageErrors ==
  { [message |-> "connect ECONNREFUSED 10.0.0.5:5432", status |-> 0,
     statusCode |-> 0],
    [message |-> "", status |-> 0, statusCode |-> 0] }

\* the routes a request may be for
Routes == {"register", "login", "logout", "user", "list", "create", "delete"}

\* err.status || err.statusCode || 500
ErrorStatus(err) ==
  IF err.status # 0 THEN err.status
  ELSE IF err.statusCode # 0 THEN err.statusCode
  ELSE 500

\* err.message || "Internal Server Error"
ErrorMessage(err) ==
  IF err.message # "" THEN err.message ELSE "Internal Server Error"

\* a request answered with an error and no change of any table or session
FailWith(c, r) ==
  /\ Answer(r)
  /\ UNCHANGED <<users, articles, nextUserId, nextArticleId, session,
                 serverPc, gone, clock, loginRole, limiterVars, env,
                 clientVars>>

\* a request of a session that names a user, on any route: passport.session()
\* calls deserializeUser, storage.getUser throws, done(error) hands the
\* error to next and the top-level error handler answers
\* res.status(status).json({ message })
DeserializeThrows(c, kind, err) ==
  /\ Serving(c)
  /\ session[c] # 0
  /\ FailWith(c, [Respond(kind, c, NoUser, session[c], ErrorStatus(err),
                          ErrorMessage(err))
                    EXCEPT !.uncaught = TRUE, !.thrown = err.message])
  /\ UNCHANGED reqs

\* POST /api/auth/register whose body passes the schema and whose
\* storage.getUserByUsername throws: the catch block answers
RegisterLookupThrows(c, username, password, role, err) ==
  LET name == sanitizeInput(username)
      issues == InsertUserIssues(name, password, role)
  IN
  /\ Serving(c)
  /\ ~ParseThrows(issues)
  /\ FailWith(c, [Respond("register", c, NoUser, 0, 500,
                          "Registration failed")
                    EXCEPT !.thrown = err.message, !.role = role,
                           !.password = password, !.raw = Text(username),
                           !.clean = name])
  /\ UNCHANGED reqs

\* the registration's storage.createUser throws and inserts nothing: the
\* catch block answers
RegisterInsertThrows(c, err) ==
  LET r == reqs[c] IN
  /\ serverPc = "serving"
  /\ r.pc = "reg_insert"
  /\ FailWith(c, [Respond("register", c, NoUser, 0, 500,
                          "Registration failed")
                    EXCEPT !.thrown = err.message, !.known = r.known,
                           !.role = r.role, !.password = r.password,
                           !.clean = r.username])
  /\ Finish(c)

\* the registration's storage.createUser has inserted the row and
\* req.login calls back with an error: the callback answers 500 "Login
\* failed after registration"; nothing takes the row out again
RegisterLoginFails(c, err) ==
  LET r == reqs[c]
      user == createUser([username |-> r.username,
                          password |-> Hash(r.password),
                          role |-> RegisterRole(r.role)])
  IN
  /\ serverPc = "serving"
  /\ r.pc = "reg_insert"
  /\ ~UniqueViolation(r.username)
  /\ nextUserId <= MaxUsers
  /\ users' = users \cup {user}
  /\ nextUserId' = nextUserId + 1
  /\ Answer([Respond("register", c, NoUser, 0, 500,
                     "Login failed after registration")
               EXCEPT !.thrown = err.message, !.known = r.known,
                      !.role = r.role, !.password = r.password,
                      !.created = users' # users, !.clean = r.username])
  /\ Finish(c)
  /\ UNCHANGED <<articles, nextArticleId, session, serverPc, gone, clock,
                 loginRole, limiterVars, env, clientVars>>

\* POST /api/auth/login whose verify callback's storage.getUserByUsername
\* throws: done(error), and the route's callback answers
LoginThrows(c, username, password, err) ==
  /\ Serving(c)
  /\ FailWith(c, [Respond("login", c, NoUser, 0, 500, "Authentication error")
                    EXCEPT !.thrown = err.message, !.password = password])
  /\ UNCHANGED reqs

\* GET /api/articles whose storage.getArticles throws: the catch block
\* answers
ListThrows(c, err) ==
  /\ Serving(c)
  /\ FailWith(c, [Respond("list", c, deserializeUser(session[c]),
                          session[c], 500, "Failed to fetch articles")
                    EXCEPT !.thrown = err.message])
  /\ UNCHANGED reqs

(* ----------------------- the legacy prototype ------------------------- *)

\* req.session.user of the prototype: { id, username, is_admin }, or nothing
NoLegacyUser == [id |-> 0, username |-> "", is_admin |-> FALSE]

\* a row of the prototype's posts table
NoPost == [id |-> 0, user_id |-> 0, url |-> "", created_at |-> 0]

\* the decimal text of an id, as it stands in the path of a request
RECURSIVE IdText(_)
IdText(n) ==
  IF n < 10 THEN <<DigitOf[n]>>
  ELSE IdText(n \div 10) \o <<DigitOf[n % 10]>>

\* WHERE id = ? with the text of req.params.id: the store compares an
\* INTEGER column with a text that reads as a whole number by its value, and
\* any other text matches no row
LegacyId(postId) ==
  IF postId # << >> /\ \A i \in DOMAIN postId : postId[i] \in DOMAIN DigitValue
  THEN LeadingDigits(postId, 0)
  ELSE NaN

\* db.get(`SELECT * FROM posts WHERE id = ?`, [postId])
LegacyGetPost(postId, posts) ==
  IF \E p \in posts : p.id = LegacyId(postId)
  THEN CHOOSE p \in posts : p.id = LegacyId(postId)
  ELSE NoPost

\* authRequired: if (!req.session.user)
LegacyAuthRequired(sessionUser) == sessionUser # NoLegacyUser

\* faulty variant: a prototype whose admin has no say over others' posts
LegacyOwnerOnly(post, sessionUser) == post.user_id # sessionUser.id

\* post.user_id !== req.session.user.id && !req.session.user.is_admin
LegacyForbidden(post, sessionUser) ==
  post.user_id # sessionUser.id /\ ~sessionUser.is_admin

\* app.delete("/api/posts/:id") up to its DELETE: the status it answers, or
\* 0 when it goes on to the DELETE
LegacyDeleteCheck(sessionUser, postId, posts) ==
  LET post == LegacyGetPost(postId, posts) IN
    IF ~LegacyAuthRequired(sessionUser) THEN 401
    ELSE IF post = NoPost THEN 404
    ELSE IF LegacyForbidden(post, sessionUser) THEN 403
    ELSE 0

\* db.run(`DELETE FROM posts WHERE id = ?`, [postId]): the table after it;
\* the request is then answered 200 "Post deleted"
LegacyDeleteRun(postId, posts) == {p \in posts : p.id # LegacyId(postId)}

\* the users the legacy comparison follows
LegacyRegisterBodies ==
  { [username |-> <<"ali">>, password |-> "password1", role |-> ""],
    [username |-> <<"bob">>, password |-> "password1", role |-> ""] }

(* -------------------------- the rate limiters ------------------------- *)

\* the client followed through the limiters; its requests come from one
\* address, which is the key of both stores
LimitClients == {"c1"}

\* faulty variant: a limiter that counts and turns no request away
NeverLimited(hits, max) == FALSE

\* rateLimit: the request is turned away when the hits of its address,
\* counted with it, exceed max
Limited(hits, max) == hits > max

\* MemoryStore.decrement
Decrement(hits) == IF hits > 0 THEN hits - 1 ELSE hits

\* requestWasSuccessful: response.statusCode < 400
WasSuccessful(status) == status < 400

\* login requests whose handler has not answered yet
InflightTotal ==
  inflight[[username |-> <<"admin">>, password |-> "adminpass"]]
    + inflight[[username |-> <<"admin">>, password |-> "wrongpass"]]

\* the rate-limit answer: 429 with the limiter's message; no handler runs
TurnAway(c, kind, message) ==
  /\ Answer(Respond(kind, c, NoUser, session[c], 429, message))
  /\ UNCHANGED <<users, articles, nextUserId, nextArticleId, session,
                 serverPc, reqs, gone, clock, loginRole, env>>

\* POST /api/auth/login comes in: limiter on /api/ counts it, then
\* authLimiter counts it; a request both let through goes to its handler,
\* which has awaits before it answers
LoginArrives(c, b) ==
  /\ Serving(c)
  /\ UNCHANGED clientVars
  /\ apiHits < ApiMax + MaxOver
  /\ authHits < AuthMax + MaxOver
  /\ apiHits' = apiHits + 1
  /\ IF Limited(apiHits + 1, ApiMax)
     THEN /\ TurnAway(c, "login",
               "Too many requests from this IP, please try again later.")
          /\ UNCHANGED <<authHits, inflight>>
     ELSE /\ authHits' = authHits + 1
          /\ IF Limited(authHits + 1, AuthMax)
             THEN /\ TurnAway(c, "login",
                       "Too many login attempts, please try again later.")
                  /\ UNCHANGED inflight
             ELSE /\ InflightTotal < MaxInflight
                  /\ inflight' = [inflight EXCEPT ![b] = @ + 1]
                  /\ Silent
                  /\ UNCHANGED <<users, articles, nextUserId, nextArticleId,
                                 session, serverPc, reqs, gone, clock,
                                 loginRole, env>>

\* the handler of a login request in flight answers; skipSuccessfulRequests:
\* on finish, a successful response takes its hit out of authLimiter's store
LoginAnswers(c, b) ==
  /\ inflight[b] > 0
  /\ LoginHandler(c, b.username, b.password)
  /\ inflight' = [inflight EXCEPT ![b] = @ - 1]
  /\ authHits' = IF WasSuccessful(response'.status)
                 THEN Decrement(authHits) ELSE authHits
  /\ UNCHANGED <<apiHits, clientVars>>

\* GET /api/articles comes in: limiter on /api/ counts it
ListArrives(c) ==
  /\ Serving(c)
  /\ apiHits < ApiMax + MaxOver
  /\ apiHits' = apiHits + 1
  /\ UNCHANGED <<authHits, inflight, clientVars>>
  /\ IF Limited(apiHits + 1, ApiMax)
     THEN TurnAway(c, "list",
            "Too many requests from this IP, please try again later.")
     ELSE ListHandler(c)

(* ---------------------------- specification --------------------------- *)

Next ==
  \/ BootLookup
  \/ BootInsert
  \/ Restart
  \/ \E c \in Clients :
       \/ \E b \in RegisterBodies :
            RegisterLookup(c, b.username, b.password, b.role)
       \/ RegisterInsert(c)
       \/ \E b \in LoginBodies : Login(c, b.username, b.password)
       \/ Logout(c)
       \/ GetCurrentUser(c)
       \/ ListArticles(c)
       \/ \E b \in ArticleBodies : CreateArticle(c, b.title, b.url)
       \/ \E id \in IdInputs : DeleteLookup(c, id)
       \/ DeleteRow(c)

Spec == Init /\ [][Next]_vars

\* the routes while rows of the users table are updated and deleted from
\* outside, and while two inserts may fall on one timestamp of the store
StoreNext ==
  \/ BootLookup
  \/ BootInsert
  \/ \E id \in 1..MaxUsers, role \in Roles : SetRole(id, role)
  \/ \E id \in 1..MaxUsers : RemoveUser(id)
  \/ \E c \in StoreClients :
       \/ \E b \in StoreRegisterBodies :
            RegisterLookup(c, b.username, b.password, b.role)
       \/ RegisterInsert(c)
       \/ \E b \in StoreLoginBodies : Login(c, b.username, b.password)
       \/ ListArticles(c)
       \/ \E b \in StoreArticleBodies : CreateStart(c, b.title, b.url)
       \/ \E now \in {clock, clock + 1} : CreateInsert(c, now)
       \/ \E id \in StoreIdInputs : DeleteLookup(c, id)
       \/ DeleteRow(c)

StoreSpec == Init /\ [][StoreNext]_vars

\* the routes around DELETE /api/articles/:id, sent numeric ids only, for
\* the comparison with the prototype's DELETE /api/posts/:id
LegacyNext ==
  \/ BootLookup
  \/ BootInsert
  \/ \E c \in Clients :
       \/ \E b \in LegacyRegisterBodies :
            RegisterLookup(c, b.username, b.password, b.role)
       \/ RegisterInsert(c)
       \/ \E b \in LoginBodies : Login(c, b.username, b.password)
       \/ Logout(c)
       \/ \E b \in StoreArticleBodies : CreateArticle(c, b.title, b.url)
       \/ \E id \in StoreIdInputs : DeleteLookup(c, id)
       \/ DeleteRow(c)

LegacySpec == Init /\ [][LegacyNext]_vars

\* one browser and the server: the AuthProvider's calls, the server
\* handling each request at some time after it was sent, the responses
\* coming back in any order
ClientNext ==
  \/ BootLookup
  \/ BootInsert
  \/ Mount
  \/ \E b \in FormBodies : CallLogin(b)
  \/ \E b \in FormBodies : CallRegister(b)
  \/ CallLogout
  \/ \E k \in AuthCalls : ServerHandles(k)
  \/ ServerInserts
  \/ \E k \in AuthCalls : Continue(k)

ClientSpec == Init /\ [][ClientNext]_vars

\* a first start in any environment, with an empty database
ConfigInit ==
  /\ users = {}
  /\ articles = {}
  /\ nextUserId = 1
  /\ nextArticleId = 1
  /\ session = [c \in Clients |-> 0]
  /\ serverPc = "start"
  /\ reqs = [c \in Clients |-> Idle]
  /\ response = NoResponse
  /\ gone = {}
  /\ clock = 0
  /\ loginRole = [c \in Clients |-> ""]
  /\ apiHits = 0
  /\ authHits = 0
  /\ inflight = [b \in LimitBodies |-> 0]
  /\ env \in Envs
  /\ authUser = NoUser
  /\ wire = [k \in AuthCalls |-> NoCall]

\* starts of the process in every environment, against the database as the
\* starts and the registrations before have left it
ConfigNext ==
  \/ Start
  \/ BootLookup
  \/ BootInsert
  \/ \E e \in Envs : Redeploy(e)
  \/ \E c \in StoreClients :
       \/ \E b \in StoreRegisterBodies :
            RegisterLookup(c, b.username, b.password, b.role)
       \/ RegisterInsert(c)
       \/ \E b \in StoreLoginBodies : Login(c, b.username, b.password)

ConfigSpec == ConfigInit /\ [][ConfigNext]_vars

\* the routes of one client while calls of the storage, and the session
\* set-up of a registration, may fail
FaultNext ==
  \/ BootLookup
  \/ BootInsert
  \/ \E c \in StoreClients :
       \/ \E b \in StoreRegisterBodies :
            RegisterLookup(c, b.username, b.password, b.role)
       \/ RegisterInsert(c)
       \/ \E b \in StoreLoginBodies : Login(c, b.username, b.password)
       \/ Logout(c)
       \/ GetCurrentUser(c)
       \/ ListArticles(c)
       \/ \E b \in StoreArticleBodies : CreateArticle(c, b.title, b.url)
       \/ \E id \in StoreIdInputs : DeleteLookup(c, id)
       \/ DeleteRow(c)
       \/ \E kind \in Routes, err \in StorageErrors :
            DeserializeThrows(c, kind, err)
       \/ \E b \in StoreRegisterBodies, err \in StorageErrors :
            RegisterLookupThrows(c, b.username, b.password, b.role, err)
       \/ \E err \in StorageErrors : RegisterInsertThrows(c, err)
       \/ \E err \in StorageErrors : RegisterLoginFails(c, err)
       \/ \E b \in StoreLoginBodies, err \in StorageErrors :
            LoginThrows(c, b.username, b.password, err)
       \/ \E err \in StorageErrors : ListThrows(c, err)

FaultSpec == Init /\ [][FaultNext]_vars

\* the routes that read free text, sent the bodies the sanitizer changes
TextNext ==
  \/ BootLookup
  \/ BootInsert
  \/ \E c \in Clients :
       \/ \E b \in TextRegisterBodies :
            RegisterLookup(c, b.username, b.password, b.role)
       \/ RegisterInsert(c)
       \/ \E b \in LoginBodies : Login(c, b.username, b.password)
       \/ Logout(c)
       \/ ListArticles(c)
       \/ \E b \in TextArticleBodies : CreateArticle(c, b.title, b.url)
       \/ \E b \in ForgedArticleBodies : CreateArticleFrom(c, b, clock + 1)

TextSpec == Init /\ [][TextNext]_vars

\* one window of both rate limiters: the login and list requests of one
\* address, several of them in flight at once
LimitNext ==
  \/ BootLookup
  \/ BootInsert
  \/ \E c \in LimitClients :
       \/ \E b \in LimitBodies : LoginArrives(c, b)
       \/ \E b \in LimitBodies : LoginAnswers(c, b)
       \/ ListArrives(c)

LimitSpec == Init /\ [][LimitNext]_vars

(* ------------------------------- claims ------------------------------- *)

MayDelete(article, user) ==
  article.userId = user.id \/ user.role = "admin"

Stored(id) == \E a \in articles : a.id = id

\* C1: a delete request of an authenticated caller who is neither the owner
\* of the article nor an admin answers 403 and the row is still in the table
\* after it; a row leaves the table only in a delete request of its owner or
\* of an admin (every id the serial handed out is stored or was answered 200
\* by such a request)
C1_DeleteNeedsOwnerOrAdmin ==
  /\ (response.kind = "delete" /\ response.article # NoArticle
        /\ ~MayDelete(response.article, response.user))
       => (response.status = 403 /\ response.present /\ ~response.removed)
  /\ (response.kind = "delete" /\ response.removed)
       => MayDelete(response.article, response.user)
  /\ \A id \in 1..(nextArticleId - 1) : Stored(id) \/ id \in gone

\* C1 witness: bob (no admin) was refused the deletion of another user's
\* article
C1_Witness ==
  /\ response.kind = "delete"
  /\ response.status = 403
  /\ response.user.role = "user"
  /\ response.article.userId # response.user.id
  /\ response.article \in articles

\* C2: a delete request of the owner or of an admin for an article that is
\* stored answers 200 and the row is gone; an article once answered 200 is
\* never stored again and is in no listing, neither the one the store would
\* return now nor the one a GET /api/articles just returned
C2_DeleteRemovesForGood ==
  /\ (response.kind = "delete" /\ response.article # NoArticle
        /\ MayDelete(response.article, response.user))
       => (response.status = 200 /\ ~response.present
             /\ response.article.id \in gone)
  /\ \A id \in gone :
       /\ ~Stored(id)
       /\ \A l \in getArticles : \A i \in DOMAIN l : l[i].id # id
  /\ response.kind = "list"
       => /\ response.status = 200
          /\ \A i \in DOMAIN response.respList :
               response.respList[i].id \notin gone

\* C2 witness: an owner who is no admin deleted their own article
C2_Witness ==
  /\ response.kind = "delete"
  /\ response.status = 200
  /\ response.removed
  /\ response.user.role = "user"
  /\ response.article.userId = response.user.id

\* C3 as stated: every registration request whose username is in the users
\* table answers 400 "Username already taken" and adds no row
C3_Original ==
  (response.kind = "register" /\ response.known)
    => /\ response.status = 400
       /\ response.message = "Username already taken"
       /\ ~response.created

\* C3 amended: every registration request whose username is in the users
\* table answers 400 and adds no row; the message is "Username already
\* taken" when the rest of the body passes validation (a password of 8
\* characters or more, a role that is absent, admin or user)
C3_TakenUsernameRejected ==
  (response.kind = "register" /\ response.known)
    => /\ response.status = 400
       /\ ~response.created
       /\ (Len(response.password) >= 8 /\ response.role \in Roles \cup {""})
            => response.message = "Username already taken"

\* C3 witness: a registration with a taken username and a valid password
\* was answered "Username already taken"
C3_Witness ==
  /\ response.kind = "register"
  /\ response.known
  /\ Len(response.password) >= 8
  /\ response.message = "Username already taken"

\* C4 as stated: a registration whose insert the store's unique index
\* rejected answers 400 "Username already taken"
C4_RaceLoserToldTaken ==
  (response.kind = "register" /\ response.constraint)
    => (response.status = 400 /\ response.message = "Username already taken")

\* C5: no two rows of the users table have the same username
C5_UsernamesUnique ==
  \A u, v \in users : u.username = v.username => u = v

\* C5 witness: two registrations of one username both passed the lookup and
\* the store rejected the second insert
C5_Witness ==
  /\ response.kind = "register"
  /\ response.constraint
  /\ Cardinality(users) >= 2

\* C6: a failed login answers 401 "Invalid credentials" with no user, the
\* same whether the username is in the table (wrong password) or not
C6_LoginFailuresAlike ==
  (response.kind = "login" /\ response.respUser = NoUser)
    => /\ response.status = 401
       /\ response.message = "Invalid credentials"

\* C6 witness: a login with a registered username and a wrong password failed
C6_Witness ==
  /\ response.kind = "login"
  /\ response.known
  /\ response.status = 401

\* C7 (step): passport.user of a session goes from none to a user id only in
\* a step that answers a register or login request 200 with that user
C7_OnlyLoginAuthenticates ==
  \A c \in Clients :
    (session[c] = 0 /\ session'[c] # 0)
      => /\ response'.kind \in {"register", "login"}
         /\ response'.status = 200
         /\ response'.respUser.id = session'[c]

\* C7 (state): a login answered 200 for a user row leaves that row's id in
\* the session, and GET /api/auth/user on a session holding an id answers 200
\* with the id, username and role of that row
C7_SessionNamesUser ==
  /\ (response.kind = "login" /\ response.status = 200)
       => /\ response.sessAfter = response.respUser.id
          /\ \E u \in users :
               /\ response.respUser =
                    [id |-> u.id, username |-> u.username, role |-> u.role]
               /\ u.password = Hash(response.password)
  /\ (response.kind = "user" /\ response.sessAt # 0)
       => /\ response.status = 200
          /\ \E u \in users :
               /\ u.id = response.sessAt
               /\ response.respUser =
                    [id |-> u.id, username |-> u.username, role |-> u.role]

\* C7: a session becomes authenticated only by a successful register or
\* login, and after a successful login it is authenticated as that user: GET
\* /api/auth/user then answers 200 with the user's id, username and role
C7_SessionStateMachine ==
  []C7_SessionNamesUser /\ [][C7_OnlyLoginAuthenticates]_vars

\* C7 witness: GET /api/auth/user answered 200 with a registered user
C7_Witness ==
  /\ response.kind = "user"
  /\ response.status = 200
  /\ response.respUser.username = "ali"

\* C8: logout on an authenticated session answers 200 and leaves no
\* passport.user in it; logout, GET /api/auth/user, POST /api/articles and
\* DELETE /api/articles/:id on a session without passport.user answer 401
C8_LogoutEndsSession ==
  /\ (response.kind = "logout" /\ response.sessAt # 0)
       => (response.status = 200 /\ response.sessAfter = 0)
  /\ (response.kind \in {"logout", "user", "create", "delete"}
        /\ response.sessAt = 0)
       => response.status = 401

\* C8 witness: a logout was answered 200
C8_Witness ==
  /\ response.kind = "logout"
  /\ response.status = 200
  /\ response.sessAt # 0

\* C9 as stated: a registration that created the user answers 201 and leaves
\* the session authenticated as the new user
C9_Original ==
  (response.kind = "register" /\ response.created)
    => (response.status = 201 /\ response.sessAfter = response.respUser.id)

\* C9 amended: a registration that created the user answers 200 (res.json
\* with no status set) with the new row's id, username and role, and leaves
\* the session authenticated as the new user; no other registration answers
\* below 400
C9_RegisterLogsIn ==
  /\ (response.kind = "register" /\ response.created)
       => /\ response.status = 200
          /\ response.sessAfter = response.respUser.id
          /\ \E u \in users :
               /\ u.id = nextUserId - 1
               /\ response.respUser =
                    [id |-> u.id, username |-> u.username, role |-> u.role]
  /\ (response.kind = "register" /\ ~response.created)
       => response.status >= 400

\* C9 witness: a registration created a user and was answered
C9_Witness ==
  /\ response.kind = "register"
  /\ response.created
  /\ response.respUser.username = "ali"

\* C10: every row a registration creates has role "user", also when the body
\* names the role admin, and the only row with role admin is the bootstrap
\* account named admin
C10_OnlyBootstrapAdmin ==
  /\ \A u \in users : (u.role = "admin") <=> (u.username = "admin")
  /\ \A u \in users : u.role \in Roles
  /\ (response.kind = "register" /\ response.created)
       => response.respUser.role = "user"

\* C10 witness: a registration whose body asked for role admin created a user
C10_Witness ==
  /\ response.kind = "register"
  /\ response.created
  /\ response.role = "admin"

\* C11 (state): a session holds a user id and nothing else; a delete request
\* answered 400, 403 or 404 was decided for the id, username and role the
\* users table holds for that id, and a 403 means that row is no admin
C11_StoredRoleDecides ==
  /\ \A c \in Clients : session[c] \in 0..(nextUserId - 1)
  /\ (response.kind = "delete" /\ response.status \in {400, 403, 404})
       => /\ response.user = Public(getUser(response.sessAt))
          /\ response.status = 403 => getUser(response.sessAt).role # "admin"

\* C11 (step): a delete request goes on to the delete only for a caller who
\* owns the article or whose row in the users table has role admin in that
\* step, whatever the role was when the session was opened
C11_AuthorizedWithStoredRole ==
  \A c \in Clients :
    (reqs[c].pc = "idle" /\ reqs'[c].pc = "del_delete")
      => /\ reqs'[c].user = Public(getUser(session[c]))
         /\ MayDelete(reqs'[c].article, Public(getUser(session[c])))

\* C11: the session stores only the user id and every delete request is
\* authorized with the role the users table holds at that request, not the
\* role held at login
C11_RoleFromStore ==
  []C11_StoredRoleDecides /\ [][C11_AuthorizedWithStoredRole]_vars

\* C11 witness: a session opened while its user had role user deleted
\* another user's article as admin, with no login in between
C11_Witness ==
  /\ response.kind = "delete"
  /\ response.status = 200
  /\ response.removed
  /\ response.user.role = "admin"
  /\ response.article.userId # response.user.id
  /\ \E c \in Clients :
       session[c] = response.user.id /\ loginRole[c] = "user"

C13_RejectedBodyChangesNothing ==
  LET r == response' IN
  ((r.kind = "register"
      /\ InsertUserIssues(r.clean, r.password, r.role) # << >>)
     \/ (r.kind = "create" /\ r.user # NoUser
           /\ InsertArticleIssues(r.clean, r.url) # << >>))
    => /\ r.status = 400
       /\ users' = users
       /\ articles' = articles
       /\ session' = session
       /\ nextUserId' = nextUserId
       /\ nextArticleId' = nextArticleId

\* C13: a mutating request whose body fails schema validation answers 400
\* and never reaches persistence
C13_ValidationFrame == [][C13_RejectedBodyChangesNothing]_vars

\* C13 witness: a registration with a username of more than 255 characters
\* was answered 400 while a session was open and an article was stored
C13_Witness ==
  /\ response.kind = "register"
  /\ Len(response.clean) > 255
  /\ response.status = 400
  /\ articles # {}
  /\ \E c \in Clients : session[c] # 0

\* C14 as stated: the schema judges the username and the title as submitted:
\* a register or create request is answered 400 for its body only when the
\* text as submitted breaks the schema, and an article is created only from
\* a title that keeps the schema as submitted
C14_ValidatedAsSubmitted ==
  /\ (response.kind = "register" /\ response.status = 400)
       => \/ response.message = "Username already taken"
          \/ InsertUserIssues(response.raw, response.password,
                              response.role) # << >>
  /\ (response.kind = "create" /\ response.status = 400)
       => InsertArticleIssues(response.raw, response.url) # << >>
  /\ (response.kind = "create" /\ response.status = 201)
       => InsertArticleIssues(response.raw, response.url) = << >>

\* C15: GET /api/articles answers 200 with the rows of the articles table,
\* each once and no other, no row before one created later, each with the
\* username of the users row that owns it
C15_ListingIsStoreNewestFirst ==
  response.kind = "list"
    => LET l == response.respList IN
       /\ response.status = 200
       /\ Len(l) = Cardinality(articles)
       /\ \A a \in articles :
            \E i \in DOMAIN l :
              /\ l[i].id = a.id
              /\ l[i].title = a.title
              /\ l[i].url = a.url
              /\ l[i].userId = a.userId
              /\ l[i].createdAt = a.createdAt
       /\ \A i, j \in DOMAIN l : i < j => l[i].createdAt >= l[j].createdAt
       /\ \A i \in DOMAIN l :
            \E u \in users : u.id = l[i].userId /\ u.username = l[i].username

\* C15 witness: a listing of two articles of two owners, the later one first
C15_Witness ==
  /\ response.kind = "list"
  /\ Len(response.respList) = 2
  /\ response.respList[1].createdAt > response.respList[2].createdAt
  /\ response.respList[1].username # response.respList[2].username

\* C16 (state): the userId of every row of the articles table is the id of
\* a row of the users table, and so is the userId of every row of every
\* listing the store would return and of the listing just returned
C16_NoOrphanArticles ==
  /\ \A a \in articles : \E u \in users : u.id = a.userId
  /\ \A l \in getArticles :
       \A i \in DOMAIN l : \E u \in users : u.id = l[i].userId
  /\ response.kind = "list"
       => \A i \in DOMAIN response.respList :
            \E u \in users : u.id = response.respList[i].userId

\* C16 (step): the step that takes a row out of the users table takes every
\* article of that user out of the articles table
C16_RemoveCascades ==
  \A u \in users :
    (\A v \in users' : v.id # u.id)
      => \A a \in articles' : a.userId # u.id

\* C16: removing a user removes the user's articles in the same step, and
\* every article's userId refers to an existing user in every state
C16_CascadeDelete == []C16_NoOrphanArticles /\ [][C16_RemoveCascades]_vars

\* C16 witness: the one user who had been removed took both articles along:
\* two articles were created, no delete request removed one, no article is
\* left
C16_Witness ==
  /\ nextArticleId = 3
  /\ articles = {}
  /\ gone = {}
  /\ Cardinality(users) = nextUserId - 2
  /\ response = NoResponse

\* C17 (state): there is one row per article id, so an article has one
\* userId, and it is the id of a user the serial of users has handed out
C17_OneOwner ==
  /\ \A a, b \in articles : a.id = b.id => a = b
  /\ \A a \in articles : a.userId \in 1..(nextUserId - 1)

\* C17 (step): a row of the articles table that is there after a step is as
\* it was before it, or it is new: then the step answered a create request,
\* the row has the serial's next id (no id comes back) and its userId is the
\* caller's id
C17_ArticlesNeverRewritten ==
  /\ \A a \in articles : \A b \in articles' : b.id = a.id => b = a
  /\ \A b \in articles' \ articles :
       /\ b.id = nextArticleId
       /\ response'.kind = "create"
       /\ response'.status = 201
       /\ b.userId = response'.user.id

\* C17: every article has one owner, fixed when it is created, and no
\* request changes the userId, title or url of an article
C17_OwnerFixed == []C17_OneOwner /\ [][C17_ArticlesNeverRewritten]_vars

\* C17 witness: the first article, created by the first registered user, is
\* stored while the second was created and deleted and its owner logged out
C17_Witness ==
  /\ \E a \in articles : a.id = 1 /\ a.userId = 2
  /\ 2 \in gone
  /\ response.kind = "logout"
  /\ response.status = 200
  /\ response.user.id = 2

\* C18 (step): a create request on a session that names no user is answered
\* 401 and leaves the articles table as it was; one of an authenticated
\* caller whose body the schema accepts is answered 201 with a row that was
\* not in the table, owned by the caller, and the table after the step is
\* the table before it and that row
C18_CreateNeedsSession ==
  LET r == response' IN
  r.kind = "create"
    => /\ r.user = NoUser => (r.status = 401 /\ articles' = articles)
       /\ (r.user # NoUser /\ InsertArticleIssues(r.clean, r.url) = << >>)
            => /\ r.status = 201
               /\ r.respArticle \notin articles
               /\ r.respArticle.userId = r.user.id
               /\ r.respArticle.title = r.clean
               /\ articles' = articles \cup {r.respArticle}
               /\ Cardinality(articles') = Cardinality(articles) + 1

\* C18: POST /api/articles without an authenticated session answers 401 and
\* creates nothing; with one and a valid body it answers 201 and adds
\* exactly one article
C18_CreateGate == [][C18_CreateNeedsSession]_vars

\* C18 witness: a create request was answered 201 with the second article
\* of the table
C18_Witness ==
  /\ response.kind = "create"
  /\ response.status = 201
  /\ response.respArticle \in articles
  /\ Cardinality(articles) = 2

\* requests the authLimiter has counted for good: turned away, or answered
\* without success
Counted == authHits - InflightTotal

\* a step that turns a request away and changes no user, article or session
TurnedAway ==
  /\ response'.status = 429
  /\ users' = users
  /\ articles' = articles
  /\ session' = session

\* C19 (step): with 100 requests counted on /api/, and with 5 requests
\* counted for good on login, the ceiling stays reached, and a step in which
\* a request of the address comes in (the store counts it) answers 429 and
\* changes no user, article or session
C19_OverCeilingTurnedAway ==
  /\ apiHits >= ApiMax
       => /\ apiHits' >= ApiMax
          /\ apiHits' > apiHits => TurnedAway
  /\ Counted >= AuthMax
       => /\ Counted' >= AuthMax
          /\ authHits' > authHits => TurnedAway

\* C19: once an address is over a ceiling in a window, every further request
\* it sends is answered with the rate-limit error and changes nothing
C19_CeilingHolds == [][C19_OverCeilingTurnedAway]_vars

\* C19 witness: a login request was turned away by authLimiter with no
\* other request in flight, while the ceiling on /api/ was not reached
C19_Witness ==
  /\ response.kind = "login"
  /\ response.status = 429
  /\ response.message = "Too many login attempts, please try again later."
  /\ InflightTotal = 0
  /\ apiHits < ApiMax

\* C20 (step) as stated: a login request that comes in while every login
\* request of its address so far was answered 200 or is in flight with the
\* right password is not turned away
C20_SuccessesLeaveNoHit ==
  (authHits' > authHits /\ Counted = 0
     /\ inflight[[username |-> <<"admin">>, password |-> "wrongpass"]] = 0)
    => response'.status # 429

\* C20 as stated: an address whose login requests all succeed is never
\* turned away by authLimiter, however the requests interleave
C20_SuccessesNeverCount == [][C20_SuccessesLeaveNoHit]_vars

Admins == {u \in users : u.username = "admin"}

\* C22 (state): there is never more than one user named admin; while the
\* routes are served, and whenever a request has been answered or is
\* suspended in its handler, there is exactly one and its role is admin
C22_OneAdminWhileServing ==
  /\ Cardinality(Admins) <= 1
  /\ (serverPc = "serving" \/ response # NoResponse
        \/ \E c \in Clients : reqs[c] # Idle)
       => /\ Cardinality(Admins) = 1
          /\ \A u \in Admins : u.role = "admin"

\* C22 (step): a startup that finds a user named admin goes on to serve
\* with the users table as it was; one that finds none adds at most one row,
\* named admin with role admin, and serves only with that row in the table
C22_StartupStep ==
  /\ (serverPc = "boot_lookup" /\ Admins # {})
       => (serverPc' = "serving" /\ users' = users
             /\ nextUserId' = nextUserId)
  /\ (serverPc \in {"boot_lookup", "boot_insert"} /\ Admins = {})
       => /\ \A u \in users' \ users : u.username = "admin" /\ u.role = "admin"
          /\ Cardinality(users' \ users) <= 1
          /\ users \subseteq users'
          /\ serverPc' = "serving" => Cardinality(users' \ users) = 1

\* C22: startup creates the admin account exactly when there is none,
\* before any route is served, and changes no row when there is one, so
\* any number of restarts leaves exactly one user named admin
C22_BootstrapOnce == []C22_OneAdminWhileServing /\ [][C22_StartupStep]_vars

\* C22 witness: the process was started again with a registered user in the
\* table and serves with the one admin account and that user
C22_Witness ==
  /\ serverPc = "serving"
  /\ response = NoResponse
  /\ \A c \in Clients : reqs[c] = Idle
  /\ nextUserId >= 3
  /\ Cardinality(users) = nextUserId - 1
  /\ Cardinality(Admins) = 1

\* C24 (step): a delete request of an authenticated caller whose :id parses
\* to a number that is the id of no row of the articles table when the
\* handler looks it up is answered 404 in a step that leaves the table as it
\* was, whatever the caller's role; a 403 is answered only for an article
\* that is in the table, read by the handler under that id
C24_AbsentArticleNotFound ==
  LET r == response' IN
  /\ (r.kind = "delete" /\ r.user # NoUser /\ r.articleId # NaN
        /\ reqs' = reqs /\ ~Stored(r.articleId))
       => (r.status = 404 /\ articles' = articles)
  /\ (r.kind = "delete" /\ r.status = 403)
       => /\ r.article \in articles
          /\ r.article.id = r.articleId

\* C24: deleting an article that does not exist answers 404 for every
\* authenticated caller and changes nothing; the existence check comes
\* before the ownership check, so 403 is answered only for a stored article
C24_ExistenceBeforeOwnership == [][C24_AbsentArticleNotFound]_vars

\* C24 witness: a plain user was told 404 for the id of an article that had
\* been deleted, while another article was stored
C24_Witness ==
  /\ response.kind = "delete"
  /\ response.status = 404
  /\ response.user.role = "user"
  /\ response.articleId \in gone
  /\ articles # {}

\* C28 (step) as stated: a delete request is answered 200 only for an
\* article that no delete request was answered 200 for before, and only
\* when its own delete took the row out of the table
C28_OneDeleteSucceeds ==
  (response'.kind = "delete" /\ response'.status = 200)
    => /\ response'.article.id \notin gone
       /\ response'.removed

\* C28 as stated: of several authorized delete requests for one article
\* processed concurrently at most one is answered 200, and one that finds
\* the article already removed is answered 404
C28_AtMostOneDeleted == [][C28_OneDeleteSucceeds]_vars

UserFields == {"id", "username", "role"}

ListingFields == {"id", "title", "url", "userId", "createdAt", "username"}

\* C30: what a session holds is a user id, a number; the user in the body
\* of a register, login or get-current-user response (and req.user, which
\* the last one sends) has the fields id, username and role and no other;
\* a row of a listing has the article's fields and the owner's username, and
\* the article a create request answers has no field of a user but userId
C30_NoPasswordLeaves ==
  /\ \A c \in Clients : session[c] \in Nat
  /\ DOMAIN response.respUser = UserFields
  /\ DOMAIN response.user = UserFields
  /\ \A i \in DOMAIN response.respList :
       DOMAIN response.respList[i] = ListingFields
  /\ DOMAIN response.respArticle = DOMAIN NoArticle
  /\ \A u \in users :
       /\ response.message # u.password
       /\ \A i \in DOMAIN response.respList :
            response.respList[i].username # u.password

\* C30 witness: GET /api/auth/user answered 200 with a registered user,
\* whose row holds a password hash, while an article of that user is listed
C30_Witness ==
  /\ response.kind = "user"
  /\ response.status = 200
  /\ \E u \in users :
       /\ u.id = response.respUser.id
       /\ u.password = Hash("password1")
       /\ \E l \in getArticles : \E i \in DOMAIN l : l[i].userId = u.id

\* the caller of a request as the prototype's session would hold them: the
\* same id and username, is_admin for role admin
AsLegacyUser(user) ==
  IF user = NoUser THEN NoLegacyUser
  ELSE [id |-> user.id, username |-> user.username,
        is_admin |-> user.role = "admin"]

\* the articles table as the prototype's posts table: the same ids, owners
\* and urls
AsPosts(rows) ==
  {[id |-> a.id, user_id |-> a.userId, url |-> a.url,
    created_at |-> a.createdAt] : a \in rows}

\* C25 (step): a delete request with a numeric id that is answered at its
\* lookup gets the status (401, 404 or 403) the prototype answers the same
\* caller on the same table; one that goes on to its delete is one the
\* prototype lets go on to its DELETE; and one answered 200 leaves the table
\* the prototype's DELETE leaves
C25_DecideAlike ==
  LET r == response' IN
  /\ (r.kind = "delete" /\ r.status # 200)
       => /\ r.articleId # NaN
          /\ LegacyDeleteCheck(AsLegacyUser(r.user), IdText(r.articleId),
                               AsPosts(articles)) = r.status
          /\ articles' = articles
  /\ \A c \in Clients :
       (reqs[c].pc = "idle" /\ reqs'[c].pc = "del_delete")
         => LegacyDeleteCheck(AsLegacyUser(reqs'[c].user),
                              IdText(reqs'[c].articleId),
                              AsPosts(articles)) = 0
  /\ (r.kind = "delete" /\ r.status = 200)
       => AsPosts(articles') =
            LegacyDeleteRun(IdText(r.articleId), AsPosts(articles))

\* C25: for delete requests with a numeric id the prototype and the primary
\* implementation decide alike: the same caller and the same article state
\* give the same outcome, 401, 404, 403 or success with the row removed
C25_LegacyDecidesAlike == [][C25_DecideAlike]_vars

\* C25 witness: with two registered users, the admin deleted an article of
\* one of them while another article was stored
C25_Witness ==
  /\ response.kind = "delete"
  /\ response.status = 200
  /\ response.removed
  /\ response.user.role = "admin"
  /\ response.article.userId # response.user.id
  /\ Cardinality(users) = 3
  /\ articles # {}

\* C26 (step): a row that comes into the articles table comes in a step that
\* answers a create request 201 with that row; its userId is the id of the
\* caller of that request, its id is the serial's next value and its
\* createdAt the store's time, whatever userId, id and createdAt the body
\* names
C26_OwnerIsCaller ==
  \A b \in articles' \ articles :
    /\ response'.kind = "create"
    /\ response'.status = 201
    /\ response'.respArticle = b
    /\ response'.user # NoUser
    /\ b.userId = response'.user.id
    /\ b.userId = response'.sessAt
    /\ \E c \in Clients : session[c] = b.userId
    /\ b.id = nextArticleId
    /\ b.createdAt = clock'

\* C26: the owner recorded for a new article is the authenticated caller of
\* the request; a userId, id or createdAt in the request body never decides
\* what is stored
C26_BodyNeverDecidesOwner == [][C26_OwnerIsCaller]_vars

\* C26 witness: a plain user's create request whose body named the admin as
\* owner was answered 201 with an article owned by the caller
C26_Witness ==
  /\ response.kind = "create"
  /\ response.status = 201
  /\ response.bodyUserId = 1
  /\ response.user.id = 2
  /\ response.respArticle.userId = 2
  /\ response.respArticle \in articles

\* C21 as stated: a request that ended in a storage exception no route
\* caught is answered 500, and with a message that is not the exception's
\* own
C21_UncaughtAnsweredGenerically ==
  response.uncaught
    => /\ response.status = 500
       /\ response.thrown # "" => response.message # response.thrown

\* C27 (step) as stated: a step that answers a registration request 400 or
\* 500 leaves the users table as it was
C27_FailedRegistrationAddsNoUser ==
  (response'.kind = "register" /\ response'.status \in {400, 500})
    => users' = users

\* C27 as stated: every registration request that answers with an error
\* status leaves the users table unchanged, also when establishing the
\* session fails after createUser
C27_RegisterErrorLeavesUsers == [][C27_FailedRegistrationAddsNoUser]_vars

AllSet(e) ==
  e.DATABASE_URL # "" /\ e.SESSION_SECRET # "" /\ e.ADMIN_PASSWORD # ""

\* C23 as stated: a production process serves only with the database
\* connection string, the session secret and the admin password all set,
\* whatever the database holds; a process that is not in production never
\* ends at startup for a value that is missing
C23_ProductionNeedsAllThree ==
  /\ (serverPc = "serving" /\ IsProduction(env)) => AllSet(env)
  /\ serverPc = "crashed" => IsProduction(env)

\* no request of the AuthProvider is in flight and none waits for its
\* continuation; the mount-time checkAuth has been made
Settled ==
  /\ wire["checkAuth"].state = "done"
  /\ \A k \in AuthCalls : Free(k)

\* C29 as stated: once every auth request of the browser has completed, the
\* AuthProvider's user is set exactly when the browser's session names a
\* user, in whatever order the responses arrived
C29_ProviderAgreesWithSession ==
  Settled
    => (authUser # NoUser
          <=> isAuthenticated(deserializeUser(session[Browser])))

====
